---- MODULE Spec2Model ----
(***************************************************************************)
(* Model of scripts/generate-all-screenshots.js: the batch orchestrator    *)
(* main(), the per-item pipeline processWorkflow() and the operations it   *)
(* sequences (screenshotExists, importWorkflow, takeScreenshot,            *)
(* uploadToGitHub, deleteWorkflow).  The script is one thread of control;  *)
(* pc is its position, one action per await / statement group.  Answers of *)
(* the execution engine, the browser, the file system and the content      *)
(* store are nondeterministic choices.                                     *)
(***************************************************************************)
EXTENDS Integers, Sequences, FiniteSets, TLC

\* ---------------------------------------------------------------- bounds
MaxItems == 3            \* largest number of workflow files discovery yields

MaxRun == 51             \* longest run of letters in a generated file name
MaxTail == 2             \* longest free-form tail of a generated file name

\* ------------------------------------------------------ program constants
NumSelectors == 5        \* length of the selectors array in takeScreenshot
MaxNameLength == 50      \* getScreenshotFilename: .substring(0, 50)
Placeholder == "your-org/your-screenshots-repo"
ResultsFile == "screenshot-results.json"

Null == 0                \* a null workflow identifier (every falsy value)
NoError == "none"        \* no exception
NoSha == ""              \* no version token
LoginPage == 0           \* the page main opens for loginToN8n
Running == -1            \* exitCode while the process has not exited

Items == 1 .. MaxItems

\* values of an environment variable: "" is unset or empty
EnvSecret == {"", "secret"}
EnvRepo == {"", Placeholder, "owner/repo"}

\* error.message classes recorded by processWorkflow's catch block
ParseError == "Unexpected token in JSON"
ImportRejected == "Failed to import workflow: API returned 4xx"
ImportNoId == "Failed to import workflow: No workflow ID in response"
ImportTransport == "Failed to import workflow: request failed"
NoCanvas == "Could not find workflow canvas element"
CaptureError == "puppeteer error"
SaveError == "local write failed"
UploadError == "GitHub upload failed"

VARIABLES
  env,            \* the run's configuration: process.env (N8N_API_KEY, GITHUB_TOKEN,
                  \* GITHUB_SCREENSHOTS_REPO) and the CONFIG.skipExisting toggle
  pc,             \* position of the single thread of control
  workflowFiles,  \* main: the discovered items, in discovery order
  state,          \* the global counters and the errors list
  results,        \* main: the screenshots list
  i,              \* main: loop index (0-based as in the source)
  workflowId,     \* processWorkflow: identifier returned by importWorkflow
  result,         \* processWorkflow's return value: <<>> is null, else <<record>>
  thrown,         \* takeScreenshot: exception travelling through its finally
  selector,       \* takeScreenshot: index of the selector being waited for (0 outside the loop's scope)
  sha,            \* uploadToGitHub: version token found by the lookup (NoSha outside the call)
  engine,         \* execution engine: identifiers of the workflows it holds
  browser,        \* "none" | "open" | "closed"
  pages,          \* browser pages currently open (LoginPage or an item)
  calls,          \* per item: calls made for it and what they returned
  runlog,         \* run-level observations: discovery, launches, closes, delays
  report,         \* contents written to ResultsFile, one entry per write
  fatal,          \* rejection travelling out of main ("none" if none)
  exitCode,       \* Running, or the process exit status
  requests,       \* content-store exchanges of the call in progress for the item
  tried,          \* takeScreenshot: the selectors waited for so far, and whether each appeared
  workflowPath,   \* getScreenshotFilename: its argument, a string as a sequence of characters
  filename        \* getScreenshotFilename: its return value

vars == <<env, pc, workflowFiles, state, results, i, workflowId, result, thrown,
          selector, sha, engine, browser, pages, calls, runlog, report, fatal,
          exitCode, requests, tried, workflowPath, filename>>

\* --------------------------------------------------------------- CONFIG
\* CONFIG.githubRepo: process.env.GITHUB_SCREENSHOTS_REPO || placeholder
githubRepo(e) == IF e.GITHUB_SCREENSHOTS_REPO = "" THEN Placeholder
                 ELSE e.GITHUB_SCREENSHOTS_REPO

\* CONFIG.skipExisting: the skip-existing toggle, shipped as true
SkipExistingSettings == BOOLEAN

\* main's validation: the three process.exit(1) guards, negated
ValidConfigNoPlaceholderCheck(e) ==
  /\ e.N8N_API_KEY # ""
  /\ e.GITHUB_TOKEN # ""
  /\ githubRepo(e) # ""

ValidConfig(e) ==
  /\ e.N8N_API_KEY # ""
  /\ e.GITHUB_TOKEN # ""
  /\ githubRepo(e) # "" /\ githubRepo(e) # Placeholder

\* per item: how often each operation was called for it, with what, and
\* what came back
NoCalls == [screenshotExists |-> 0, exists |-> FALSE,
            importWorkflow |-> 0, handle |-> Null, created |-> FALSE,
            takeScreenshot |-> 0,
            uploadToGitHub |-> 0, lookups |-> 0, puts |-> 0,
            deleteWorkflow |-> <<>>, deleteFailed |-> FALSE,
            threw |-> NoError]

NoRunlog == [getWorkflowFiles |-> 0, launch |-> 0, close |-> 0, delays |-> 0]

\* the module-level state and the locals before anything has run
RunInit ==
  /\ workflowFiles = <<>>
  /\ state = [total |-> 0, processed |-> 0, succeeded |-> 0, failed |-> 0,
              skipped |-> 0, errors |-> <<>>]
  /\ results = <<>>
  /\ i = 0
  /\ workflowId = Null
  /\ result = <<>>
  /\ thrown = NoError
  /\ selector = 0
  /\ sha = NoSha
  /\ engine = {}
  /\ browser = "none"
  /\ pages = {}
  /\ calls = [k \in Items |-> NoCalls]
  /\ runlog = NoRunlog
  /\ report = <<>>
  /\ fatal = "none"
  /\ exitCode = Running
  /\ requests = <<>>
  /\ tried = <<>>
  /\ filename = <<>>

Init ==
  /\ env \in [N8N_API_KEY : EnvSecret, GITHUB_TOKEN : EnvSecret,
              GITHUB_SCREENSHOTS_REPO : EnvRepo,
              skipExisting : SkipExistingSettings]
  /\ pc = "main"
  /\ workflowPath = <<>>
  /\ RunInit

\* ------------------------------------------------------------------ main
mainVars == <<workflowFiles, state, results, i>>
itemVars == <<workflowId, result, thrown, selector, sha, calls>>
worldVars == <<engine, browser, pages, runlog, report>>
logVars == <<requests, tried>>
nameVars == <<workflowPath, filename>>

\* main: validate config; a missing value logs and calls process.exit(1)
ValidateConfig ==
  /\ pc = "main"
  /\ IF ValidConfig(env)
       THEN pc' = "getWorkflowFiles" /\ exitCode' = exitCode
       ELSE pc' = "exit" /\ exitCode' = 1
  /\ UNCHANGED <<env, mainVars, itemVars, worldVars, fatal>>
  /\ UNCHANGED <<logVars, nameVars>>

\* main: workflowFiles = await getWorkflowFiles(); state.total = length;
\* if (state.total === 0) return
GetWorkflowFiles ==
  /\ pc = "getWorkflowFiles"
  /\ \E n \in 0 .. MaxItems :
       /\ workflowFiles' = [k \in 1 .. n |-> k]
       /\ state' = [state EXCEPT !.total = n]
       /\ IF n = 0
            THEN pc' = "exit" /\ exitCode' = 0
            ELSE pc' = "launch" /\ exitCode' = exitCode
  /\ runlog' = [runlog EXCEPT !.getWorkflowFiles = @ + 1]
  /\ UNCHANGED <<env, results, i, itemVars, engine, browser, pages, report, fatal>>
  /\ UNCHANGED <<logVars, nameVars>>

\* main: browser = await puppeteer.launch(...); outside the try block, so a
\* failed launch rejects main and main().catch calls process.exit(1).
\* Then if (CONFIG.n8nEmail && CONFIG.n8nPassword), the only read of the
\* login credentials in main: hasLogin is their value in the environment
LaunchBrowser ==
  /\ pc = "launch"
  /\ runlog' = [runlog EXCEPT !.launch = @ + 1]
  /\ \E ok \in BOOLEAN, hasLogin \in BOOLEAN :
       IF ok
         THEN /\ browser' = "open"
              /\ pc' = IF hasLogin THEN "login" ELSE "for"
              /\ UNCHANGED <<fatal, exitCode>>
         ELSE /\ browser' = browser
              /\ fatal' = "launch"
              /\ pc' = "exit"
              /\ exitCode' = 1
  /\ UNCHANGED <<env, mainVars, itemVars, engine, pages, report>>
  /\ UNCHANGED <<logVars, nameVars>>

\* main: loginPage = newPage(); await loginToN8n(loginPage); loginPage.close()
\* loginToN8n logs and rethrows, which leaves the try block of main
Login ==
  /\ pc = "login"
  /\ \E ok \in BOOLEAN :
       IF ok
         THEN pc' = "for" /\ pages' = pages /\ fatal' = fatal
         ELSE pc' = "browserClose" /\ pages' = pages \cup {LoginPage} /\ fatal' = "login"
  /\ UNCHANGED <<env, mainVars, itemVars, engine, browser, runlog, report, exitCode>>
  /\ UNCHANGED <<logVars, nameVars>>

\* main: the for loop's test; the body starts processWorkflow(workflowFiles[i])
ForLoop ==
  /\ pc = "for"
  /\ IF i < Len(workflowFiles)
       THEN /\ pc' = "screenshotExists"
            /\ workflowId' = Null
            /\ result' = <<>>
       ELSE /\ pc' = "summary"
            /\ UNCHANGED <<workflowId, result>>
  /\ UNCHANGED <<env, mainVars, thrown, selector, sha, calls, worldVars, fatal,
                 exitCode>>
  /\ UNCHANGED <<logVars, nameVars>>

\* ------------------------------------------------------- processWorkflow
\* workflowPath of the running call: workflowFiles[i]
item == workflowFiles[i + 1]

\* filePath = `screenshots/${category}/${filename}` of item k; the category
\* and the file name are functions of the item's path
filePath(k) == [dir |-> "screenshots", category |-> k, filename |-> k]

\* one exchange with the content store, as logged in requests
Exchange(method, k, status, token, message, branch) ==
  [method |-> method, path |-> filePath(k), status |-> status, sha |-> token,
   message |-> message, branch |-> branch]

\* screenshotExists' answer from the content store's reply to its GET:
\* validateStatus accepts 200 and 404, anything else throws and is caught
StoreReplies == {"200", "404", "other", "neterr"}

screenshotExistsUnlessNotFound(e, reply) == e.skipExisting /\ reply # "404"

screenshotExists(e, reply) == e.skipExisting /\ reply = "200"

\* the catch block: log, state.failed++, state.errors.push(...), return null;
\* c is calls as the failing operation left it
CatchRethrows(msg, c) ==
  /\ state' = [state EXCEPT !.failed = @ + 1,
                             !.errors = Append(@, [workflow |-> item, error |-> msg])]
  /\ result' = <<>>
  /\ calls' = [c EXCEPT ![item].threw = msg]
  /\ pc' = "browserClose"
  /\ fatal' = msg

Catch(msg, c) ==
  /\ state' = [state EXCEPT !.failed = @ + 1,
                             !.errors = Append(@, [workflow |-> item, error |-> msg])]
  /\ result' = <<>>
  /\ calls' = [c EXCEPT ![item].threw = msg]
  /\ pc' = "finally"
  /\ fatal' = fatal

\* await screenshotExists(category, filename): no request when the toggle
\* is off, else one GET whose outcome decides the answer; never throws
ScreenshotExists ==
  /\ pc = "screenshotExists"
  /\ \E reply \in StoreReplies :
       /\ requests' = IF env.skipExisting
                        THEN <<Exchange("GET", item, reply, NoSha, "", "")>>
                        ELSE <<>>
       /\ calls' = [calls EXCEPT ![item].screenshotExists = @ + 1,
                                 ![item].exists = screenshotExists(env, reply)]
  /\ pc' = "checkExisting"
  /\ UNCHANGED <<env, mainVars, workflowId, result, thrown, selector, sha,
                 worldVars, fatal, exitCode>>
  /\ UNCHANGED <<tried, nameVars>>

\* if (<the answer>) { state.skipped++; return null }
CheckExistingFallsThrough ==
  /\ pc = "checkExisting"
  /\ state' = IF calls[item].exists THEN [state EXCEPT !.skipped = @ + 1] ELSE state
  /\ pc' = "readWorkflow"
  /\ requests' = <<>>
  /\ UNCHANGED <<env, workflowFiles, results, i, itemVars, worldVars, fatal, exitCode>>
  /\ UNCHANGED <<tried, nameVars>>

CheckExisting ==
  /\ pc = "checkExisting"
  /\ IF calls[item].exists
       THEN /\ state' = [state EXCEPT !.skipped = @ + 1]
            /\ pc' = "returned"
       ELSE /\ state' = state
            /\ pc' = "readWorkflow"
  /\ requests' = <<>>
  /\ UNCHANGED <<env, workflowFiles, results, i, itemVars, worldVars, fatal, exitCode>>
  /\ UNCHANGED <<tried, nameVars>>

\* workflowJson = JSON.parse(fs.readFileSync(workflowPath, 'utf8'))
ReadWorkflowReportsAndContinues ==
  /\ pc = "readWorkflow"
  /\ \E ok \in BOOLEAN :
       IF ok
         THEN /\ pc' = "importWorkflow"
              /\ UNCHANGED <<state, result, calls, fatal>>
         ELSE /\ state' = [state EXCEPT !.failed = @ + 1,
                             !.errors = Append(@, [workflow |-> item, error |-> ParseError])]
              /\ calls' = [calls EXCEPT ![item].threw = ParseError]
              /\ pc' = "importWorkflow"
              /\ UNCHANGED <<result, fatal>>
  /\ UNCHANGED <<env, workflowFiles, results, i, workflowId, thrown, selector,
                 sha, worldVars, exitCode>>
  /\ UNCHANGED <<logVars, nameVars>>

ReadWorkflow ==
  /\ pc = "readWorkflow"
  /\ \E ok \in BOOLEAN :
       IF ok
         THEN /\ pc' = "importWorkflow"
              /\ UNCHANGED <<state, result, calls, fatal>>
         ELSE Catch(ParseError, calls)
  /\ UNCHANGED <<env, workflowFiles, results, i, workflowId, thrown, selector,
                 sha, worldVars, exitCode>>
  /\ UNCHANGED <<logVars, nameVars>>

\* the engine's answers to POST /api/v1/workflows: an identifier; a
\* successful-looking body without one; a 4xx; a 5xx or transport failure.
\* created: whether the engine now holds a workflow for the item
ImportReplies ==
  {[kind |-> "id", created |-> TRUE], [kind |-> "4xx", created |-> FALSE],
   [kind |-> "neterr", created |-> FALSE]}
    \cup [kind : {"noid"}, created : BOOLEAN]

ImportFailure(kind) ==
  CASE kind = "4xx" -> ImportRejected
    [] kind = "noid" -> ImportNoId
    [] OTHER -> ImportTransport

\* workflowId = await importWorkflow(workflowJson); then the fixed delay
ImportWorkflow ==
  /\ pc = "importWorkflow"
  /\ \E reply \in ImportReplies :
       LET c == [calls EXCEPT ![item].importWorkflow = @ + 1,
                              ![item].created = reply.created] IN
       /\ engine' = IF reply.created THEN engine \cup {item} ELSE engine
       /\ IF reply.kind = "id"
            THEN /\ workflowId' = item
                 /\ calls' = [c EXCEPT ![item].handle = item]
                 /\ pc' = "takeScreenshot"
                 /\ UNCHANGED <<state, result, fatal>>
            ELSE /\ workflowId' = workflowId
                 /\ Catch(ImportFailure(reply.kind), c)
  /\ UNCHANGED <<env, workflowFiles, results, i, thrown, selector, sha,
                 browser, pages, runlog, report, exitCode>>
  /\ UNCHANGED <<logVars, nameVars>>

\* ------------------------------------------------------- takeScreenshot
\* page = await browser.newPage(): before the try, so a failure opens no page
TakeScreenshot ==
  /\ pc = "takeScreenshot"
  /\ \E ok \in BOOLEAN :
       LET c == [calls EXCEPT ![item].takeScreenshot = @ + 1] IN
       IF ok
         THEN /\ pages' = pages \cup {item}
              /\ calls' = c
              /\ pc' = "goto"
              /\ UNCHANGED <<state, result, fatal>>
         ELSE /\ pages' = pages
              /\ Catch(CaptureError, c)
  /\ UNCHANGED <<env, workflowFiles, results, i, workflowId, thrown, selector,
                 sha, engine, browser, runlog, report, exitCode>>
  /\ UNCHANGED <<logVars, nameVars>>

\* setViewport; await page.goto(url, ...)
Goto ==
  /\ pc = "goto"
  /\ \E ok \in BOOLEAN :
       IF ok
         THEN pc' = "waitForSelector" /\ selector' = 1 /\ thrown' = thrown
         ELSE pc' = "pageClose" /\ selector' = selector /\ thrown' = CaptureError
  /\ tried' = <<>>
  /\ UNCHANGED <<env, mainVars, workflowId, result, sha, calls, worldVars,
                 fatal, exitCode>>
  /\ UNCHANGED <<requests, nameVars>>

\* one round of the selector loop: waitForSelector(selectors[selector]);
\* found: break; timed out: next selector; none left: throw the no-canvas error
WaitForSelectorGivesUpEarly ==
  /\ pc = "waitForSelector"
  /\ \E appears \in BOOLEAN :
       /\ tried' = Append(tried, [selector |-> selector, appeared |-> appears])
       /\ IF appears
            THEN pc' = "screenshot" /\ selector' = selector /\ thrown' = thrown
            ELSE pc' = "pageClose" /\ selector' = 0 /\ thrown' = NoCanvas
  /\ UNCHANGED <<env, mainVars, workflowId, result, sha, calls, worldVars,
                 fatal, exitCode>>
  /\ UNCHANGED <<requests, nameVars>>

WaitForSelector ==
  /\ pc = "waitForSelector"
  /\ \E appears \in BOOLEAN :
       /\ tried' = Append(tried, [selector |-> selector, appeared |-> appears])
       /\ IF appears
            THEN pc' = "screenshot" /\ selector' = selector /\ thrown' = thrown
            ELSE IF selector < NumSelectors
              THEN pc' = pc /\ selector' = selector + 1 /\ thrown' = thrown
              ELSE pc' = "pageClose" /\ selector' = 0 /\ thrown' = NoCanvas
  /\ UNCHANGED <<env, mainVars, workflowId, result, sha, calls, worldVars,
                 fatal, exitCode>>
  /\ UNCHANGED <<requests, nameVars>>

\* settle delay, best-effort fit-to-view, screenshot = await page.screenshot()
Screenshot ==
  /\ pc = "screenshot"
  /\ \E ok \in BOOLEAN :
       thrown' = IF ok THEN NoError ELSE CaptureError
  /\ pc' = "pageClose"
  /\ UNCHANGED <<env, mainVars, workflowId, result, selector, sha, calls,
                 worldVars, fatal, exitCode>>
  /\ UNCHANGED <<logVars, nameVars>>

\* finally { await page.close() }; then takeScreenshot returns or throws
\* (the probing record goes out of scope)
PageCloseOnSuccessOnly ==
  /\ pc = "pageClose"
  /\ pages' = IF thrown = NoError THEN pages \ {item} ELSE pages
  /\ thrown' = NoError
  /\ selector' = 0
  /\ tried' = <<>>
  /\ IF thrown = NoError
       THEN /\ pc' = "saveLocal"
            /\ UNCHANGED <<state, result, calls, fatal>>
       ELSE Catch(thrown, calls)
  /\ UNCHANGED <<env, workflowFiles, results, i, workflowId, sha,
                 engine, browser, runlog, report, exitCode>>
  /\ UNCHANGED <<requests, nameVars>>

PageClose ==
  /\ pc = "pageClose"
  /\ pages' = pages \ {item}
  /\ thrown' = NoError
  /\ selector' = 0
  /\ tried' = <<>>
  /\ IF thrown = NoError
       THEN /\ pc' = "saveLocal"
            /\ UNCHANGED <<state, result, calls, fatal>>
       ELSE Catch(thrown, calls)
  /\ UNCHANGED <<env, workflowFiles, results, i, workflowId, sha,
                 engine, browser, runlog, report, exitCode>>
  /\ UNCHANGED <<requests, nameVars>>

\* mkdirSync / writeFileSync of the local backup copy
SaveLocal ==
  /\ pc = "saveLocal"
  /\ \E ok \in BOOLEAN :
       IF ok
         THEN /\ pc' = "uploadToGitHub"
              /\ UNCHANGED <<state, result, calls, fatal>>
         ELSE Catch(SaveError, calls)
  /\ UNCHANGED <<env, workflowFiles, results, i, workflowId, thrown, selector,
                 sha, worldVars, exitCode>>
  /\ UNCHANGED <<logVars, nameVars>>

\* ------------------------------------------------------- uploadToGitHub
\* the content store's answers to the lookup GET: 200 with the file's sha, or
\* a failure (no such file; any other status or a transport failure), on
\* which axios throws
LookupReplies ==
  {[status |-> "200", sha |-> "sha1"], [status |-> "404", sha |-> NoSha],
   [status |-> "neterr", sha |-> NoSha]}

\* let sha = null; try { sha = (await axios.get(...)).data.sha } catch (e) {}
lookupSha(reply) == IF reply.status = "200" THEN reply.sha ELSE NoSha

UploadLookup ==
  /\ pc = "uploadToGitHub"
  /\ \E reply \in LookupReplies :
       /\ sha' = lookupSha(reply)
       /\ requests' = <<Exchange("GET", item, reply.status, reply.sha, "", "")>>
  /\ calls' = [calls EXCEPT ![item].uploadToGitHub = @ + 1,
                            ![item].lookups = @ + 1]
  /\ pc' = "put"
  /\ UNCHANGED <<env, mainVars, workflowId, result, thrown, selector,
                 worldVars, fatal, exitCode>>
  /\ UNCHANGED <<tried, nameVars>>

\* the public locator uploadToGitHub returns:
\* `https://raw.githubusercontent.com/${CONFIG.githubRepo}/main/${filePath}`
publicUrl(e, k) == [host |-> "https://raw.githubusercontent.com",
                    repo |-> githubRepo(e), branch |-> "main", path |-> filePath(k)]

\* payload = {message: 'Add screenshot', content, branch: 'main'};
\* if (sha) { payload.sha = sha; payload.message = 'Update screenshot' }
PayloadWithoutSha(token) ==
  [message |-> "Add screenshot", branch |-> "main", sha |-> NoSha]

Payload(token) ==
  [message |-> IF token # NoSha THEN "Update screenshot" ELSE "Add screenshot",
   branch |-> "main",
   sha |-> token]

\* the PUT with payload {message, content, branch, sha?}; on success
\* uploadToGitHub returns and processWorkflow counts the item and returns its
\* result record; on failure uploadToGitHub throws
UploadPutIgnoresFailure ==
  /\ pc = "put"
  /\ \E ok \in BOOLEAN :
       LET c == [calls EXCEPT ![item].puts = @ + 1]
           payload == Payload(sha) IN
       /\ requests' = Append(requests,
              Exchange("PUT", item, IF ok THEN "200" ELSE "error", payload.sha,
                       payload.message, payload.branch))
       /\ calls' = c
       /\ state' = [state EXCEPT !.succeeded = @ + 1]
       /\ result' = <<[workflow |-> item, url |-> publicUrl(env, item)]>>
       /\ pc' = "finally"
       /\ fatal' = fatal
  /\ sha' = NoSha
  /\ UNCHANGED <<env, workflowFiles, results, i, workflowId, thrown, selector,
                 worldVars, exitCode>>
  /\ UNCHANGED <<tried, nameVars>>

UploadPut ==
  /\ pc = "put"
  /\ \E ok \in BOOLEAN :
       LET c == [calls EXCEPT ![item].puts = @ + 1]
           payload == Payload(sha) IN
       /\ requests' = Append(requests,
              Exchange("PUT", item, IF ok THEN "200" ELSE "error", payload.sha,
                       payload.message, payload.branch))
       /\ IF ok
            THEN /\ calls' = c
                 /\ state' = [state EXCEPT !.succeeded = @ + 1]
                 /\ result' = <<[workflow |-> item, url |-> publicUrl(env, item)]>>
                 /\ pc' = "finally"
                 /\ fatal' = fatal
            ELSE Catch(UploadError, c)
  /\ sha' = NoSha
  /\ UNCHANGED <<env, workflowFiles, results, i, workflowId, thrown, selector,
                 worldVars, exitCode>>
  /\ UNCHANGED <<tried, nameVars>>

\* ------------------------------------------------- processWorkflow: finally
\* if (workflowId)
NeverCleansUp(wid) == FALSE

NeedsCleanup(wid) == wid # Null

\* finally { if (workflowId) await deleteWorkflow(workflowId); ... }
\* deleteWorkflow catches a failed DELETE and only logs it
FinallyRecordsDeleteFailure ==
  /\ pc = "finally"
  /\ IF NeedsCleanup(workflowId)
       THEN \E ok \in BOOLEAN :
              /\ engine' = IF ok THEN engine \ {workflowId} ELSE engine
              /\ calls' = [calls EXCEPT ![item].deleteWorkflow = Append(@, workflowId),
                                        ![item].deleteFailed = ~ok]
              /\ state' = IF ok THEN state
                          ELSE [state EXCEPT !.failed = @ + 1,
                                  !.errors = Append(@, [workflow |-> item,
                                                        error |-> "Failed to delete workflow"])]
       ELSE UNCHANGED <<engine, calls, state>>
  /\ pc' = "progress"
  /\ UNCHANGED <<env, workflowFiles, results, i, workflowId, result, thrown, selector, sha,
                 browser, pages, runlog, report, fatal, exitCode>>
  /\ UNCHANGED <<logVars, nameVars>>

Finally ==
  /\ pc = "finally"
  /\ IF NeedsCleanup(workflowId)
       THEN \E ok \in BOOLEAN :
              /\ engine' = IF ok THEN engine \ {workflowId} ELSE engine
              /\ calls' = [calls EXCEPT ![item].deleteWorkflow = Append(@, workflowId),
                                        ![item].deleteFailed = ~ok]
       ELSE UNCHANGED <<engine, calls>>
  /\ pc' = "progress"
  /\ UNCHANGED <<env, mainVars, workflowId, result, thrown, selector, sha,
                 browser, pages, runlog, report, fatal, exitCode>>
  /\ UNCHANGED <<logVars, nameVars>>

\* ... state.processed++; log.progress() }
Progress ==
  /\ pc = "progress"
  /\ state' = [state EXCEPT !.processed = @ + 1]
  /\ pc' = "returned"
  /\ UNCHANGED <<env, workflowFiles, results, i, itemVars, worldVars, fatal, exitCode>>
  /\ UNCHANGED <<logVars, nameVars>>

\* ------------------------------------------------------ main, continued
\* if (result) results.push(result); delay unless last; i++
\* (the call's exchanges with the content store go out of scope)
AfterItemDelaysOnSuccessOnly ==
  /\ pc = "returned"
  /\ results' = results \o result
  /\ runlog' = IF i < Len(workflowFiles) - 1 /\ result # <<>>
                 THEN [runlog EXCEPT !.delays = @ + 1] ELSE runlog
  /\ i' = i + 1
  /\ pc' = "for"
  /\ requests' = <<>>
  /\ UNCHANGED <<env, workflowFiles, state, itemVars, engine, browser, pages,
                 report, fatal, exitCode>>
  /\ UNCHANGED <<tried, nameVars>>

AfterItem ==
  /\ pc = "returned"
  /\ results' = results \o result
  /\ runlog' = IF i < Len(workflowFiles) - 1
                 THEN [runlog EXCEPT !.delays = @ + 1] ELSE runlog
  /\ i' = i + 1
  /\ pc' = "for"
  /\ requests' = <<>>
  /\ UNCHANGED <<env, workflowFiles, state, itemVars, engine, browser, pages,
                 report, fatal, exitCode>>
  /\ UNCHANGED <<tried, nameVars>>

\* summary, then fs.writeFileSync(resultsFile, JSON.stringify({...}));
\* a failed write leaves the try block with the exception
WriteReport ==
  /\ pc = "summary"
  /\ \E ok \in BOOLEAN :
       IF ok
         THEN /\ report' = Append(report,
                     [stats |-> [total |-> state.total, succeeded |-> state.succeeded,
                                 failed |-> state.failed, skipped |-> state.skipped],
                      screenshots |-> results, errors |-> state.errors])
              /\ fatal' = fatal
         ELSE /\ report' = report
              /\ fatal' = "report"
  /\ pc' = "browserClose"
  /\ UNCHANGED <<env, mainVars, itemVars, engine, browser, pages, runlog, exitCode>>
  /\ UNCHANGED <<logVars, nameVars>>

\* finally { await browser.close() }; then main resolves (exit status 0) or
\* rejects and main().catch calls process.exit(1)
CloseBrowserOnSuccessOnly ==
  /\ pc = "browserClose"
  /\ browser' = IF fatal = "none" THEN "closed" ELSE browser
  /\ pages' = IF fatal = "none" THEN {} ELSE pages
  /\ runlog' = IF fatal = "none" THEN [runlog EXCEPT !.close = @ + 1] ELSE runlog
  /\ pc' = "exit"
  /\ exitCode' = IF fatal = "none" THEN 0 ELSE 1
  /\ UNCHANGED <<env, mainVars, itemVars, engine, report, fatal>>
  /\ UNCHANGED <<logVars, nameVars>>

CloseBrowser ==
  /\ pc = "browserClose"
  /\ browser' = "closed"
  /\ pages' = {}
  /\ runlog' = [runlog EXCEPT !.close = @ + 1]
  /\ pc' = "exit"
  /\ exitCode' = IF fatal = "none" THEN 0 ELSE 1
  /\ UNCHANGED <<env, mainVars, itemVars, engine, report, fatal>>
  /\ UNCHANGED <<logVars, nameVars>>

Next ==
  \/ ValidateConfig
  \/ GetWorkflowFiles
  \/ LaunchBrowser
  \/ Login
  \/ ForLoop
  \/ ScreenshotExists
  \/ CheckExisting
  \/ ReadWorkflow
  \/ ImportWorkflow
  \/ TakeScreenshot
  \/ Goto
  \/ WaitForSelector
  \/ Screenshot
  \/ PageClose
  \/ SaveLocal
  \/ UploadLookup
  \/ UploadPut
  \/ Finally
  \/ Progress
  \/ AfterItem
  \/ WriteReport
  \/ CloseBrowser

Spec == Init /\ [][Next]_vars

\* the script runs to completion: every step that can be taken is taken
FairSpec == Spec /\ WF_vars(Next)

TypeOK ==
  /\ pc \in {"main", "getWorkflowFiles", "launch", "login", "for",
              "screenshotExists", "checkExisting", "readWorkflow", "importWorkflow",
              "takeScreenshot", "goto", "waitForSelector", "screenshot",
              "pageClose", "saveLocal", "uploadToGitHub", "put", "finally",
              "progress", "returned", "summary", "browserClose", "exit",
              "getScreenshotFilename", "named", "renamed"}
  /\ i \in 0 .. MaxItems
  /\ workflowId \in {Null} \cup Items
  /\ selector \in 0 .. NumSelectors
  /\ engine \subseteq Items
  /\ exitCode \in {Running, 0, 1}

\* ================================================================ claims
Discovered == 1 .. Len(workflowFiles)

\* processWorkflow has returned for item k
Done(k) == k <= i \/ (k = i + 1 /\ pc = "returned")

Counted == state.succeeded + state.failed + state.skipped

\* a required configuration value is missing from the environment
MissingRequired(e) ==
  e.N8N_API_KEY = "" \/ e.GITHUB_TOKEN = "" \/ e.GITHUB_SCREENSHOTS_REPO = ""

ItemErrors == {ParseError, ImportRejected, ImportNoId, ImportTransport,
               NoCanvas, CaptureError, SaveError, UploadError}

\* C1: at every point of the run, also in the middle of processWorkflow,
\* succeeded + failed + skipped = processed and processed <= total.
CountersInvariant ==
  /\ Counted = state.processed
  /\ state.processed <= state.total

\* C2: each time processWorkflow has returned, processed = succeeded + failed
\* + skipped and processed is the number of items handled so far; when the
\* loop has handled the last item, processed = total.
CheckpointCounters ==
  /\ pc = "returned" => state.processed = Counted /\ state.processed = i + 1
  /\ pc = "summary" => state.processed = state.total

\* C3: deleteWorkflow is never called more than once for an item, only with
\* the identifier importWorkflow returned for that item, and once
\* processWorkflow has returned it was called exactly once if importWorkflow
\* returned an identifier and not at all otherwise.
DeleteExactlyOncePerImport ==
  \A k \in Discovered :
    LET d == calls[k].deleteWorkflow IN
    /\ Len(d) <= 1
    /\ \A j \in 1 .. Len(d) : d[j] = calls[k].handle /\ d[j] # Null /\ d[j] = k
    /\ Done(k) => Len(d) = IF calls[k].handle # Null THEN 1 ELSE 0

\* C3 witness: an item whose capture, save or publish threw after a
\* successful import has returned with its one delete call made
DeleteAfterDownstreamFailure ==
  \E k \in Discovered :
    /\ Done(k)
    /\ calls[k].handle = k
    /\ calls[k].threw \in {NoCanvas, CaptureError, SaveError, UploadError}
    /\ calls[k].deleteWorkflow = <<k>>

\* C4 as stated: once processWorkflow has returned for an item, the engine
\* holds no workflow created for it, whatever the import response and the
\* delete request did.
NoHandleOutlivesItem ==
  \A k \in Discovered : Done(k) => k \notin engine

\* C4 amended: once processWorkflow has returned for an item, the engine
\* still holds a workflow created for it only if the import response carried
\* no identifier or the delete request failed.
HandleOutlivesOnlyIfUndeletable ==
  \A k \in Discovered :
    (Done(k) /\ k \in engine) => (calls[k].handle = Null \/ calls[k].deleteFailed)

\* C4 witness: an imported workflow was deleted by the time its item returned
ImportedWorkflowGone ==
  \E k \in Discovered :
    /\ Done(k)
    /\ calls[k].created /\ calls[k].handle = k
    /\ ~calls[k].deleteFailed
    /\ k \notin engine

\* screenshotExists answered true for item k and processWorkflow has acted on
\* the answer
TookSkipPath(k) == calls[k].exists /\ ~(k = i + 1 /\ pc = "checkExisting")

\* C5: an item for which screenshotExists returned true gets no
\* importWorkflow, takeScreenshot, uploadToGitHub or deleteWorkflow call, is
\* counted as skipped, returns null and has no entry in the screenshots or
\* errors lists.
SkipPathTouchesNothing ==
  /\ \A k \in Discovered :
       TookSkipPath(k) =>
         /\ calls[k].importWorkflow = 0
         /\ calls[k].takeScreenshot = 0
         /\ calls[k].uploadToGitHub = 0 /\ calls[k].lookups = 0 /\ calls[k].puts = 0
         /\ calls[k].deleteWorkflow = <<>>
         /\ Done(k)
         /\ (k = i + 1 => result = <<>>)
         /\ \A j \in 1 .. Len(results) : results[j].workflow # k
         /\ \A j \in 1 .. Len(state.errors) : state.errors[j].workflow # k
         /\ \A r \in 1 .. Len(report) :
              /\ \A j \in 1 .. Len(report[r].screenshots) :
                   report[r].screenshots[j].workflow # k
              /\ \A j \in 1 .. Len(report[r].errors) :
                   report[r].errors[j].workflow # k
  /\ state.skipped = Cardinality({k \in Discovered : TookSkipPath(k)})

\* C5 witness: a skipped item followed by an item that went through the
\* whole pipeline, and the report written
SkippedThenPublished ==
  \E k \in Discovered :
    /\ calls[k].exists
    /\ k + 1 \in Discovered /\ calls[k + 1].puts = 1
    /\ Len(report) = 1

\* C6: an exception raised while reading, importing, capturing, saving or
\* publishing an item is recorded (failed counter, errors entry for the
\* item), never leaves processWorkflow, and once the loop has started every
\* discovered item is eventually processed.
FailureIsolation ==
  /\ [](/\ \A k \in Discovered :
            calls[k].threw # NoError =>
              \E j \in 1 .. Len(state.errors) :
                state.errors[j] = [workflow |-> k, error |-> calls[k].threw]
        /\ state.failed = Cardinality({k \in Discovered : calls[k].threw # NoError})
        /\ fatal \notin ItemErrors
        /\ (\E k \in Discovered : calls[k].threw # NoError /\ Done(k))
             => pc \notin {"exit"} \/ i = Len(workflowFiles))
  /\ ((pc = "for") ~> (pc = "summary" /\ \A k \in Discovered : Done(k)))

\* C6 witness: the first item failed and a later item has been processed
LaterItemAfterFailure ==
  /\ Len(workflowFiles) >= 2
  /\ calls[1].threw # NoError
  /\ Done(2)
  /\ state.failed >= 1

\* C7: a run that passed configuration validation has written the report
\* exactly once when it ends.
ReportWrittenOnce ==
  (pc = "exit" /\ ValidConfig(env)) => Len(report) = 1

\* C8: a run that discovered zero items exits with status 0 and has written
\* the report with all-zero stats and empty lists.
ZeroItemsStillReports ==
  (pc = "exit" /\ runlog.getWorkflowFiles = 1 /\ state.total = 0) =>
    /\ exitCode = 0
    /\ report = <<[stats |-> [total |-> 0, succeeded |-> 0, failed |-> 0,
                              skipped |-> 0],
                   screenshots |-> <<>>, errors |-> <<>>]>>

\* C9 as stated: once validation has passed, the run ends only after all
\* discovered items have been processed, and with exit status 0.
OnlyConfigErrorsTerminate ==
  (pc = "exit" /\ ValidConfig(env)) =>
    exitCode = 0 /\ i = Len(workflowFiles)

\* C9 amended: once validation has passed, no failure of a per-item step
\* (existence check, read, import, capture, save, publish, cleanup) ends the
\* run before all discovered items have been processed or makes the exit
\* status non-zero; the run ends early or with status 1 only when the browser
\* launch, the login or the report write failed.
PerItemFailuresNeverTerminate ==
  /\ fatal \in {"none", "launch", "login", "report"}
  /\ (pc = "exit" /\ ValidConfig(env)) =>
       /\ fatal \notin {"launch", "login"} => i = Len(workflowFiles)
       /\ exitCode = IF fatal = "none" THEN 0 ELSE 1

\* C9 witness: every item of a run failed, one of them with a failed
\* cleanup, and the run ended with exit status 0
AllFailedExitsZero ==
  /\ pc = "exit" /\ exitCode = 0
  /\ Len(workflowFiles) >= 2
  /\ state.failed = Len(workflowFiles)
  /\ \E k \in Discovered : calls[k].deleteFailed

\* C10: with a required configuration value missing the run does nothing
\* but exit with status 1: no discovery, no browser, no call for any item,
\* no counter change, no report.
MissingConfigExitsFirst ==
  MissingRequired(env) =>
    /\ pc \in {"main", "exit"}
    /\ pc = "exit" => exitCode = 1
    /\ runlog = NoRunlog
    /\ browser = "none" /\ pages = {}
    /\ calls = [k \in Items |-> NoCalls]
    /\ engine = {}
    /\ state = [total |-> 0, processed |-> 0, succeeded |-> 0, failed |-> 0,
                skipped |-> 0, errors |-> <<>>]
    /\ results = <<>> /\ report = <<>>

\* C10 witness: the run has exited with status 1 for a missing repo only
MissingRepoExited ==
  /\ env.N8N_API_KEY # "" /\ env.GITHUB_TOKEN # ""
  /\ env.GITHUB_SCREENSHOTS_REPO = ""
  /\ pc = "exit" /\ exitCode = 1

\* uploadToGitHub has been called for the item in progress and has returned
\* or thrown; requests holds its exchanges
UploadFinished ==
  /\ pc \in {"finally", "progress", "returned"}
  /\ calls[item].uploadToGitHub = 1

\* C11: uploadToGitHub issues one lookup and then exactly one PUT, both at
\* the item's path; the PUT carries the token the lookup returned and is an
\* update when there was one, carries no token and is a create when there
\* was none; after a successful PUT the item's result holds the public
\* locator built from the repo, branch main and that path.
PublisherUpdateVsCreate ==
  UploadFinished =>
    /\ Len(requests) = 2 /\ calls[item].puts = 1
    /\ requests[1].method = "GET" /\ requests[2].method = "PUT"
    /\ requests[1].path = filePath(item) /\ requests[2].path = filePath(item)
    /\ requests[2].branch = "main"
    /\ IF requests[1].status = "200" /\ requests[1].sha # NoSha
         THEN requests[2].sha = requests[1].sha
              /\ requests[2].message = "Update screenshot"
         ELSE requests[2].sha = NoSha
              /\ requests[2].message = "Add screenshot"
    /\ requests[2].status = "200" =>
         /\ Len(result) = 1
         /\ result[1].workflow = item
         /\ result[1].url.host = "https://raw.githubusercontent.com"
         /\ result[1].url.repo = githubRepo(env)
         /\ result[1].url.branch = "main"
         /\ result[1].url.path = requests[2].path

\* C11 witness: an update (the lookup found a token) was published and the
\* item returned its locator
UpdatePublished ==
  /\ UploadFinished /\ pc = "returned"
  /\ requests[1].sha = "sha1"
  /\ requests[2].sha = "sha1" /\ requests[2].status = "200"
  /\ Len(result) = 1

\* ================================================ getScreenshotFilename
\* Strings are sequences of one-character strings.
Json == <<".", "j", "s", "o", "n">>
Png == <<".", "p", "n", "g">>
Sep == "/"

LowerCase == {"a", "d", "j", "s", "o", "n", "p", "g"}
DigitChars == {"1"}

\* String.prototype.toLowerCase, one character
toLowerCase(c) == CASE c = "A" -> "a" [] c = "D" -> "d" [] OTHER -> c

\* the class [a-z0-9] of the regular expression
AlnumOrHyphen(c) == c \in LowerCase \cup DigitChars \cup {"-"}

Alnum(c) == c \in LowerCase \cup DigitChars

EndsWith(s, suffix) ==
  /\ Len(s) >= Len(suffix)
  /\ SubSeq(s, Len(s) - Len(suffix) + 1, Len(s)) = suffix

\* path.basename(p, ext): trailing separators are ignored, the last segment
\* is taken, and ext is cut from its end unless it is the whole segment
\* (the whole path being ext gives the empty string)
basename(p, ext) ==
  LET ends == {j \in 1 .. Len(p) : p[j] # Sep}
      last == IF ends = {} THEN 0 ELSE CHOOSE j \in ends : \A m \in ends : m <= j
      seps == {j \in 1 .. last : p[j] = Sep}
      first == IF seps = {} THEN 1 ELSE (CHOOSE j \in seps : \A m \in seps : m <= j) + 1
      base == IF last = 0 THEN <<>> ELSE SubSeq(p, first, last)
  IN IF p = ext THEN <<>>
     ELSE IF EndsWith(base, ext) /\ Len(base) > Len(ext)
       THEN SubSeq(base, 1, Len(base) - Len(ext))
       ELSE base

\* .replace(/[^a-z0-9]+/g, '-'): every maximal run of other characters
\* becomes one hyphen
Dropped(c) == c # ""

collapse(s) ==
  SelectSeq([j \in 1 .. Len(s) |->
               IF Alnum(s[j]) THEN s[j]
               ELSE IF j = 1 \/ Alnum(s[j - 1]) THEN "-" ELSE ""],
            Dropped)

\* .replace(/^-+|-+$/g, ''): the hyphens at both ends are removed
trimHyphens(s) ==
  LET keep == {j \in 1 .. Len(s) : s[j] # "-"}
  IN IF keep = {} THEN <<>>
     ELSE SubSeq(s, CHOOSE j \in keep : \A m \in keep : j <= m,
                    CHOOSE j \in keep : \A m \in keep : m <= j)

\* .substring(0, n)
substring(s, n) == SubSeq(s, 1, IF Len(s) < n THEN Len(s) ELSE n)

\* the canonical name: lower-cased, collapsed, trimmed, then cut to length
lower(s) == [j \in 1 .. Len(s) |-> toLowerCase(s[j])]

canonical(p) ==
  substring(trimHyphens(collapse(lower(basename(p, Json)))), MaxNameLength)

getScreenshotFilename(p) == canonical(p) \o Png

\* the file paths the function is tried on: an optional directory, an
\* optional leading character, a run of letters, a free-form tail, and the
\* .json extension or none
NameChars == {"a", "A", "1", "-", "_", "."}

RECURSIVE Strings(_)
Strings(n) ==
  IF n = 0 THEN {<<>>}
  ELSE Strings(n - 1) \cup {Append(s, c) : s \in Strings(n - 1), c \in NameChars}

Run(n) == [j \in 1 .. n |-> "a"]

NameInputs ==
  {dir \o head \o Run(n) \o tail \o ext :
     dir \in {<<>>, <<"D", "_", "a", Sep>>},
     head \in {<<>>, <<"-">>, <<"A">>},
     n \in 0 .. MaxRun,
     tail \in Strings(MaxTail),
     ext \in {<<>>, Json}}

NameInit ==
  /\ env = [N8N_API_KEY |-> "secret", GITHUB_TOKEN |-> "secret",
            GITHUB_SCREENSHOTS_REPO |-> "owner/repo", skipExisting |-> TRUE]
  /\ pc = "getScreenshotFilename"
  /\ workflowPath \in NameInputs
  /\ RunInit

runVars == <<env, mainVars, itemVars, worldVars, fatal, exitCode, logVars>>

\* filename = getScreenshotFilename(workflowPath)
GetScreenshotFilename ==
  /\ pc = "getScreenshotFilename"
  /\ filename' = getScreenshotFilename(workflowPath)
  /\ pc' = "named"
  /\ UNCHANGED <<workflowPath, runVars>>

\* the function applied to its own output
GetScreenshotFilenameAgain ==
  /\ pc = "named"
  /\ workflowPath' = filename
  /\ filename' = getScreenshotFilename(filename)
  /\ pc' = "renamed"
  /\ UNCHANGED runVars

NameNext == GetScreenshotFilename \/ GetScreenshotFilenameAgain

NameSpec == NameInit /\ [][NameNext]_vars

\* C12: applying getScreenshotFilename to its own output yields the same
\* output.
NamingIdempotent ==
  pc = "renamed" => filename = workflowPath

\* the produced name without the appended image extension
CanonicalPart == SubSeq(filename, 1, Len(filename) - Len(Png))

\* C13: the canonical name has at most MaxNameLength characters, all of them
\* lowercase letters, digits or hyphens, no two hyphens adjacent, and no
\* hyphen at either end.
CanonicalNameWellFormed ==
  pc = "named" =>
    LET c == CanonicalPart IN
    /\ EndsWith(filename, Png)
    /\ Len(c) <= MaxNameLength
    /\ \A j \in 1 .. Len(c) : AlnumOrHyphen(c[j])
    /\ \A j \in 1 .. Len(c) - 1 : ~(c[j] = "-" /\ c[j + 1] = "-")
    /\ Len(c) > 0 => c[1] # "-" /\ c[Len(c)] # "-"

\* C14: screenshotExists answers true only when the content store answered
\* 200; on a 404, any other status or a transport failure it answers false
\* and raises nothing, and the item goes on to the read-and-import path; with
\* the skip-existing toggle off it answers false without any request.
ExistenceCheckPolicy ==
  /\ [](pc = "checkExisting" =>
          /\ calls[item].screenshotExists = 1
          /\ calls[item].threw = NoError /\ fatal = "none" /\ state.failed = i - state.succeeded - state.skipped
          /\ IF env.skipExisting
               THEN /\ Len(requests) = 1
                    /\ requests[1].method = "GET" /\ requests[1].path = filePath(item)
                    /\ calls[item].exists <=> requests[1].status = "200"
               ELSE requests = <<>> /\ ~calls[item].exists)
  /\ [][(pc = "checkExisting" /\ ~calls[item].exists) => pc' = "readWorkflow"]_vars
  /\ [](\A k \in Discovered : calls[k].importWorkflow > 0 => ~calls[k].exists)

\* C14 witness: the existence check met a transport failure and answered
\* false
ExistenceCheckTransportFailure ==
  /\ pc = "checkExisting"
  /\ Len(requests) = 1 /\ requests[1].status = "neterr"
  /\ ~calls[item].exists

\* the statements of takeScreenshot between newPage and the end of finally
InTakeScreenshot == pc \in {"goto", "waitForSelector", "screenshot", "pageClose"}

\* C15: a page opened by takeScreenshot for an item is open only while that
\* item's takeScreenshot is between newPage and the end of its finally block;
\* once takeScreenshot has returned or thrown, and so at every checkpoint
\* between items, no page opened for an item is open.
PagesClosedOnEveryExit ==
  /\ \A p \in pages \ {LoginPage} : p = item /\ InTakeScreenshot
  /\ (pc \in {"for", "returned", "summary", "browserClose"} /\ fatal # "login") => pages = {}

\* C15 witness: takeScreenshot threw the no-canvas error for the item that
\* just returned, and no page is open
PageClosedAfterThrow ==
  /\ pc = "returned"
  /\ calls[item].takeScreenshot = 1 /\ calls[item].threw = NoCanvas
  /\ pages = {}

HeldHandles ==
  {k \in Discovered : calls[k].handle # Null /\ calls[k].deleteWorkflow = <<>>}

\* C17: the loop index only ever advances by one, when processWorkflow has
\* returned; every operation (call, engine change, page, content-store
\* exchange, counter change) belongs to item i + 1 and happens before that
\* advance, so at most one imported handle awaits its delete at any time; the
\* advance past an item adds exactly one delay unless the item is the last
\* one, whatever its outcome.
SequentialProcessing ==
  /\ [][/\ i' # i => (i' = i + 1 /\ pc = "returned" /\ pc' = "for")
        /\ \A k \in DOMAIN calls :
             calls'[k] # calls[k] =>
               k = i + 1 /\ i' = i /\ k \in Discovered /\ pc \notin {"for", "returned"}
        /\ engine' # engine =>
             \E k \in {i + 1} : engine' \in {engine \cup {k}, engine \ {k}} /\ i' = i
        /\ requests' # <<>> =>
             \A j \in 1 .. Len(requests') : requests'[j].path = filePath(i + 1)
        /\ (state'.succeeded # state.succeeded \/ state'.failed # state.failed
              \/ state'.skipped # state.skipped) =>
             i' = i /\ pc \notin {"for", "returned"}
        /\ i' = i + 1 =>
             runlog'.delays = runlog.delays + (IF i' < Len(workflowFiles) THEN 1 ELSE 0)
       ]_vars
  /\ [](/\ Cardinality(HeldHandles) <= 1
        /\ HeldHandles \subseteq {i + 1}
        /\ (pc \in {"for", "returned"} => HeldHandles = {})
        /\ \A k \in Discovered : k > i + 1 => calls[k] = NoCalls
        /\ runlog.delays = IF i < Len(workflowFiles) THEN i ELSE Len(workflowFiles) - 1
                              + (IF workflowFiles = <<>> THEN 1 ELSE 0))

\* C17 witness: three items ending skipped, failed and succeeded in that
\* order, with two delays in all
TwoDelaysForThreeItems ==
  /\ Len(workflowFiles) = 3 /\ i = 3
  /\ calls[1].exists
  /\ calls[2].threw # NoError
  /\ calls[3].puts = 1 /\ calls[3].threw = NoError
  /\ runlog.delays = 2

\* item k went through the whole pipeline and was published
Succeeded(k) == calls[k].puts = 1 /\ calls[k].threw = NoError

\* C18: an item whose definition failed to parse gets no importWorkflow,
\* takeScreenshot, uploadToGitHub or deleteWorkflow call; and in a run over 3
\* items where item 2 failed to parse and items 1 and 3 succeeded, the
\* report has total 3, failed 1, succeeded 2, item 2 as its only errors
\* entry with the parse-failure message, and screenshots entries for items 1
\* and 3 only.
ParseFailureScenario ==
  /\ \A k \in Discovered :
       calls[k].threw = ParseError =>
         /\ calls[k].importWorkflow = 0 /\ calls[k].takeScreenshot = 0
         /\ calls[k].uploadToGitHub = 0 /\ calls[k].deleteWorkflow = <<>>
  /\ (/\ Len(workflowFiles) = 3 /\ Len(report) = 1
      /\ Succeeded(1) /\ calls[2].threw = ParseError /\ Succeeded(3)) =>
       /\ report[1].stats.total = 3
       /\ report[1].stats.failed = 1
       /\ report[1].stats.succeeded = 2
       /\ report[1].errors = <<[workflow |-> 2, error |-> ParseError]>>
       /\ Len(report[1].screenshots) = 2
       /\ report[1].screenshots[1].workflow = 1
       /\ report[1].screenshots[2].workflow = 3

\* C18 witness: the report of a 3-item run whose second item failed to parse
\* and whose other items were published
SecondOfThreeUnparseable ==
  /\ Len(workflowFiles) = 3 /\ Len(report) = 1
  /\ Succeeded(1) /\ calls[2].threw = ParseError /\ Succeeded(3)

\* the entries of a list of records that are about item k
EntriesFor(list, k) == {j \in 1 .. Len(list) : list[j].workflow = k}

\* C19: the finally step, with its deleteWorkflow call, leaves the counters,
\* the errors list, processWorkflow's return value and the run's fate as the
\* try or catch block set them; and an item whose delete failed keeps its
\* outcome: published, it is counted succeeded with its one result entry and
\* no errors entry; failed, it has exactly one errors entry, carrying the
\* error that made it fail.
CleanupNeverMasksOutcome ==
  /\ [][pc = "finally" =>
          /\ state' = state /\ result' = result /\ results' = results
          /\ fatal' = fatal /\ exitCode' = exitCode
          /\ calls'[item].threw = calls[item].threw
          /\ pc' = "progress"]_vars
  /\ [](\A k \in Discovered :
          calls[k].deleteFailed =>
            IF calls[k].threw = NoError
              THEN /\ Succeeded(k)
                   /\ EntriesFor(state.errors, k) = {}
                   /\ IF k = i + 1
                        THEN result = <<[workflow |-> k, url |-> publicUrl(env, k)]>>
                             /\ EntriesFor(results, k) = {}
                        ELSE Cardinality(EntriesFor(results, k)) = 1
              ELSE /\ Cardinality(EntriesFor(state.errors, k)) = 1
                   /\ \A j \in EntriesFor(state.errors, k) :
                        state.errors[j].error = calls[k].threw
                   /\ EntriesFor(results, k) = {}
                   /\ (k = i + 1 => result = <<>>))
  /\ [](/\ state.succeeded = Cardinality({k \in Discovered : Succeeded(k)})
        /\ state.failed = Cardinality({k \in Discovered : calls[k].threw # NoError})
        /\ state.skipped = Cardinality({k \in Discovered : TookSkipPath(k)}))

\* C19 witness: an item was published, its delete failed, and it is in the
\* screenshots list of the report as succeeded
PublishedDespiteFailedDelete ==
  \E k \in Discovered :
    /\ Succeeded(k) /\ calls[k].deleteFailed
    /\ Len(report) = 1
    /\ EntriesFor(report[1].screenshots, k) # {}
    /\ EntriesFor(report[1].errors, k) = {}

\* a content-store exchange that ended in a transport failure or a rejected
\* request (a 404 answer to the lookup is an answer, not a failure)
NonSuccess(x) == x.status \in {"neterr", "error"}

\* C20 as stated: any non-success outcome of a request made by
\* uploadToGitHub makes the call fail with the publish error, each call makes
\* at most one lookup and one PUT, and the item is then not counted succeeded.
AnyRequestFailureFailsUpload ==
  /\ \A k \in Discovered : calls[k].lookups <= 1 /\ calls[k].puts <= 1
  /\ UploadFinished =>
       ((\E j \in 1 .. Len(requests) : NonSuccess(requests[j]))
          => (calls[item].threw = UploadError /\ ~Succeeded(item) /\ result = <<>>))

\* C20 amended: uploadToGitHub fails with the publish error exactly when its
\* PUT had a non-success outcome, and the item is then counted failed, not
\* succeeded; a non-success outcome of the token lookup is swallowed and the
\* PUT is made without a token; each call makes exactly one lookup and one
\* PUT, never more.
PutFailureFailsUpload ==
  /\ \A k \in Discovered :
       /\ calls[k].lookups <= 1 /\ calls[k].puts <= 1
       /\ calls[k].lookups = calls[k].uploadToGitHub
       /\ calls[k].threw = UploadError => ~Succeeded(k) /\ calls[k].puts = 1
  /\ UploadFinished =>
       /\ Len(requests) = 2
       /\ requests[1].method = "GET" /\ requests[2].method = "PUT"
       /\ NonSuccess(requests[1]) => requests[2].sha = NoSha
       /\ calls[item].threw = UploadError <=> NonSuccess(requests[2])
       /\ NonSuccess(requests[2]) =>
            /\ result = <<>>
            /\ Cardinality(EntriesFor(state.errors, item)) = 1
            /\ \E j \in EntriesFor(state.errors, item) : state.errors[j].error = UploadError
       /\ ~NonSuccess(requests[2]) =>
            /\ calls[item].threw = NoError
            /\ result = <<[workflow |-> item, url |-> publicUrl(env, item)]>>

\* C20 witness: the PUT failed after a lookup that found a token, and the
\* item ended failed with the publish error
PutFailedAfterLookup ==
  /\ UploadFinished
  /\ Len(requests) = 2
  /\ requests[1].status = "200" /\ NonSuccess(requests[2])
  /\ calls[item].threw = UploadError

\* the loop head and everything after the loop: the points of main between
\* two items and after the last one, where the returned result is pushed
BetweenItems == pc \in {"for", "summary", "browserClose", "exit"}

\* the entries of a list are about distinct items, in processing order
InProcessingOrder(list) ==
  \A a, b \in 1 .. Len(list) : a < b => list[a].workflow < list[b].workflow

\* C21: the errors list always has exactly `failed` entries; between items
\* the results list has exactly `succeeded` entries (while processWorkflow's
\* return value awaits its push, one less); each list has at most one entry
\* per item and is in processing order, no item is in both, the entries are
\* those of the published and of the failed items; and a written report
\* carries lists and counters with the same properties.
ListsMatchCounters ==
  /\ Len(state.errors) = state.failed
  /\ BetweenItems => Len(results) = state.succeeded
  /\ pc = "returned" => Len(results) + Len(result) = state.succeeded
  /\ InProcessingOrder(results) /\ InProcessingOrder(state.errors)
  /\ \A k \in Discovered :
       /\ Cardinality(EntriesFor(results, k)) <= 1
       /\ Cardinality(EntriesFor(state.errors, k)) <= 1
       /\ EntriesFor(results, k) = {} \/ EntriesFor(state.errors, k) = {}
       /\ EntriesFor(results, k) # {} => Succeeded(k) /\ k <= i
       /\ EntriesFor(state.errors, k) # {} => calls[k].threw # NoError
       /\ (BetweenItems /\ Succeeded(k)) => EntriesFor(results, k) # {}
  /\ \A r \in 1 .. Len(report) :
       /\ Len(report[r].errors) = report[r].stats.failed
       /\ Len(report[r].screenshots) = report[r].stats.succeeded
       /\ InProcessingOrder(report[r].screenshots)
       /\ InProcessingOrder(report[r].errors)
       /\ report[r].screenshots = results /\ report[r].errors = state.errors
       /\ \A k \in Discovered :
            EntriesFor(report[r].screenshots, k) = {}
              \/ EntriesFor(report[r].errors, k) = {}

\* C21 witness: a report whose lists both have entries, a failed item
\* between two published ones
ReportWithBothLists ==
  /\ Len(report) = 1
  /\ Len(report[1].screenshots) = 2
  /\ Len(report[1].errors) = 1
  /\ report[1].screenshots[1].workflow < report[1].errors[1].workflow
  /\ report[1].errors[1].workflow < report[1].screenshots[2].workflow

\* puppeteer.launch resolved: the run has a browser
Launched == runlog.launch = 1 /\ fatal # "launch" /\ pc # "launch"

\* C22: the browser is launched at most once and closed at most once, only
\* after it was launched; it is open only inside main's try block; and when
\* the process ends, a browser that was launched has been closed exactly
\* once, whether main completed, the login failed or the report write failed.
BrowserClosedOnEveryExit ==
  /\ runlog.launch <= 1 /\ runlog.close <= 1
  /\ runlog.close = 1 => Launched /\ browser = "closed" /\ pc = "exit"
  /\ browser = "open" <=> (Launched /\ pc # "exit")
  /\ pc = "exit" =>
       /\ browser # "open"
       /\ runlog.close = IF Launched THEN 1 ELSE 0
       /\ fatal \in {"login", "report"} => runlog.close = 1 /\ exitCode = 1
       /\ (Launched /\ fatal = "none") => runlog.close = 1 /\ exitCode = 0

\* C22 witness: the login failed before any item was processed, and the
\* process ended with the browser closed
BrowserClosedAfterLoginFailure ==
  /\ pc = "exit" /\ fatal = "login"
  /\ i = 0
  /\ browser = "closed" /\ runlog.close = 1

====
